---- MODULE Spec2Model ----
(***************************************************************************)
(* Model of ksred/llm: package resource (the ConnectionPool with Get, Put, *)
(* the cleanup sweep and Shutdown; the RetryableClient with Do) and the    *)
(* streaming decoders of the OpenAI and Anthropic providers, and the       *)
(* unified Client (NewClient and its four dispatch operations), and the    *)
(* CostTracker of package cost.  Money is counted in units of 10^-7        *)
(* dollar, in which every rate of GetProviderRates is a whole number per   *)
(* token; the code computes in float64.                                    *)
(*                                                                         *)
(* Time is counted in units of 100 ms.  A connection (an http.Client) is    *)
(* modelled by its identity, a number drawn from a counter: every          *)
(* &http.Client{} is a pointer no earlier connection has.                  *)
(***************************************************************************)
EXTENDS Integers, Sequences, FiniteSets, TLC

\* ---------------------------------------------------------------- bounds
NumCallers == 2
MaxConns == 3
MaxRetriesBound == 2
MaxLines == 3
MaxCalls == 2
MaxTracks == 3

\* ------------------------------------------------- configuration values
\* PoolConfig{MaxSize: 2, IdleTimeout: 100 ms, CleanupPeriod: 100 ms}
MaxSize == 2
IdleTimeout == 1
CleanupPeriod == 1
\* time.After(100 * time.Millisecond)
PollInterval == 1
\* RetryConfig{InitialInterval: 1 ms, MaxInterval: 10 ms, Multiplier: 2}
InitialInterval == 1
MaxInterval == 10
Multiplier == 2

Callers == 1..NumCallers
Conns == 1..MaxConns
NoConn == 0

\* the longest idle list explored
MaxIdleLen == 3

\* an http.Client that this pool did not make
ForeignConn == MaxConns + 1

\* error values
ErrNil == "nil"
ErrPoolShutdown == "pool is shut down"
ErrCanceled == "context canceled"
ErrDeadlineExceeded == "context deadline exceeded"

(***************************************************************************)
(* The code reads the clock only to take differences (now.Sub(lastUsed),   *)
(* time.After), so the model keeps, instead of the clock, the time elapsed *)
(* since each recorded instant, and stops counting at IdleTimeout, the     *)
(* only value an elapsed time is compared with.                            *)
(***************************************************************************)
VARIABLES
    idle,        \* p.idle: sequence of connections, last is next handed out
    active,      \* p.active: connection -> time elapsed since its checkout
    shutdown,    \* p.shutdown
    phase,       \* time elapsed since the ticker's last tick
    tickPending, \* a tick waits in ticker.C (capacity 1)
    sweeper,     \* the cleanup goroutine: "running" or "stopped"
    nextConn,    \* identity of the next &http.Client{}
    pc,          \* per caller: "out" (not in Get), "wait" (in the select),
                 \* "lock" (the select took the timer, p.mu comes next)
    ctx,         \* per caller: the context of its Get: "live", "canceled",
                 \* "deadline"
    wake,        \* per caller: time left until its time.After fires
    held,        \* per caller: connections Get returned to it, not yet Put
    ret,         \* what the step just taken returned: the caller, the
                 \* client and the error of a Get that returned, and whether
                 \* that Get had waited in the select; else NoRet
    idleAge,     \* history: idle connection -> time elapsed since its Put
    mu,          \* p.mu: the caller that holds it between two steps,
                 \* NoHolder if none
    fired,       \* the operation the step just taken belongs to, and the
                 \* metrics callback it invoked
    \* ---- RetryableClient.Do
    maxRetries,  \* c.config.MaxRetries
    rpc,         \* where Do is: "idle" (not called), "call" (about to call
                 \* c.client.Do), "sleep" (about to time.Sleep), "exhausted"
                 \* (past the loop), "done" (returned)
    attempt,     \* the loop variable
    interval,    \* the next sleep
    resp,        \* resp: the status of the last response, NoResp for nil
    err,         \* err
    reqCtx,      \* the context of req: "live" or "canceled"
    doRet,       \* what Do returned: [resp, err]
    outcomes,    \* history: what c.client.Do answered, attempt by attempt
    sleeps,      \* history: the durations slept
    initialInterval, \* c.config.InitialInterval
    bodies,      \* the attempts (numbered from 1) whose response body is open
    callbacks,   \* history: the request callbacks Do invoked, in order
    \* ---- streamRequest: the decoding goroutine and its channel
    decoder,     \* which streamRequest runs
    wire,        \* the lines of resp.Body, in order
    wireEnd,     \* how the body ends: "EOF", "EOF-open" (the last line has
                 \* no newline before EOF) or "error" (a read error)
    rpos,        \* number of lines read
    sctx,        \* the caller's context: "live" or "canceled"
    spc,         \* the goroutine: "idle" (not started), "top", "read",
                 \* "send", "return" (deferred calls to run), "done"
    pending,     \* the send the goroutine is blocked in, NoSend if none
    recv,        \* the items the consumer received from responseChan
    recvFrom,    \* history: the line each received item came from
                 \* (0: from a read error)
    closes,      \* number of close(responseChan) calls
    \* ---- client.Client
    cfg,         \* the *config.Config handed to NewClient
    llmClient,   \* the *Client NewClient returned, NoClient for nil
    newErr,      \* the error NewClient returned
    cpc,         \* "idle" (no client code runs), "new" (NewClient not yet
                 \* called), "ready", "failed" (NewClient returned an
                 \* error), "panicked"
    calls,       \* per operation: how often the provider was invoked
    lastCall,    \* the last dispatch: operation, context, error returned,
                 \* and whether it invoked the provider
    \* ---- cost.CostTracker
    usage,       \* c.usage: (provider, model) -> UsageStats
    budgets,     \* c.budgets: (provider, model) -> budget
    trackRet,    \* the last TrackUsage: its number, its pair, its error
    costRet,     \* what the last GetCost returned: [cost, err]
    tracked,     \* history: per pair, the usages TrackUsage accepted
    statsRet,    \* what the last GetUsageStats returned: the pair whose
                 \* UsageStats the pointer points to (NoPair for nil), the
                 \* error, and the statistics as they were at the return
    \* ---- openai.Provider, anthropic.Provider
    adapter,     \* the package of the Provider: "openai" or "anthropic"
                 \* ("" when no provider code runs)
    sent,        \* history: the HTTP requests the provider issued, each with
                 \* the operation, the request it was built from and the
                 \* connection it ran on
    provRet      \* the last operation: its name, its request and its error

poolVars == <<idle, active, shutdown, phase, tickPending, sweeper, nextConn,
              pc, ctx, wake, held, ret, idleAge, mu, fired>>

retryVars == <<maxRetries, rpc, attempt, interval, resp, err, reqCtx, doRet,
               outcomes, sleeps, initialInterval, bodies, callbacks>>

streamVars == <<decoder, wire, wireEnd, rpos, sctx, spc, pending, recv,
                recvFrom, closes>>

clientVars == <<cfg, llmClient, newErr, cpc, calls, lastCall>>

costVars == <<usage, budgets, trackRet, costRet, tracked, statsRet>>

providerVars == <<adapter, sent, provRet>>

\* what the operations of one component leave alone
notPoolVars == <<retryVars, streamVars, clientVars, costVars, providerVars>>
notRetryVars == <<poolVars, streamVars, clientVars, costVars, providerVars>>
notStreamVars == <<poolVars, retryVars, clientVars, costVars, providerVars>>
notClientVars == <<poolVars, retryVars, streamVars, costVars, providerVars>>
notCostVars == <<poolVars, retryVars, streamVars, clientVars, providerVars>>
notProviderVars == <<poolVars, retryVars, streamVars, clientVars, costVars>>

vars == <<poolVars, retryVars, streamVars, clientVars, costVars, providerVars>>

EmptyMap == [c \in {} |-> 0]

\* nobody holds p.mu
NoHolder == 0

\* no callback
NoCallback == "none"

\* a step of operation op that invoked the callback cb
Fired(op, cb) == [op |-> op, cb |-> cb]

NoRet == [p |-> 0, client |-> NoConn, err |-> ErrNil, waited |-> FALSE]

Range(s) == {s[i] : i \in DOMAIN s}

Min(a, b) == IF a < b THEN a ELSE b

\* mutant: every done context reports context.Canceled
CtxErrAlwaysCanceled(c) == IF c = "live" THEN ErrNil ELSE ErrCanceled

\* ctx.Err()
CtxErr(c) ==
    IF c = "canceled" THEN ErrCanceled
    ELSE IF c = "deadline" THEN ErrDeadlineExceeded
    ELSE ErrNil

\* the connections callers hold
CheckedOut == UNION {held[p] : p \in Callers}

MapSet(m, c, v) == [x \in DOMAIN m \cup {c} |-> IF x = c THEN v ELSE m[x]]

MapDelete(m, c) == [x \in DOMAIN m \ {c} |-> m[x]]

\* NewConnectionPool
PoolInit ==
    /\ idle = <<>>
    /\ active = EmptyMap
    /\ shutdown = FALSE
    /\ phase = 0
    /\ tickPending = FALSE
    /\ sweeper = "running"
    /\ nextConn = 1
    /\ pc = [p \in Callers |-> "out"]
    /\ ctx = [p \in Callers |-> "live"]
    /\ wake = [p \in Callers |-> 0]
    /\ held = [p \in Callers |-> {}]
    /\ ret = NoRet
    /\ idleAge = EmptyMap
    /\ mu = NoHolder
    /\ fired = Fired("none", NoCallback)

\* Get returns (client, err) to caller p, whose context is then of no use
GetReturn(p, client, e) ==
    /\ pc' = [pc EXCEPT ![p] = "out"]
    /\ ret' = [p |-> p, client |-> client, err |-> e, waited |-> pc[p] # "out"]
    /\ ctx' = [ctx EXCEPT ![p] = "live"]
    /\ held' = [held EXCEPT ![p] = IF client = NoConn THEN @ ELSE @ \cup {client}]
    /\ wake' = [wake EXCEPT ![p] = 0]

\* len(p.idle) > 0
HasIdle == Len(idle) > 0

\* mutant: Get takes the idle connection that was released first
IdleTopOldest == idle[1]

\* client := p.idle[len(p.idle)-1]
IdleTop == idle[Len(idle)]

\* mutant: the client handed out stays in the idle list
IdlePopKeeps == idle

\* p.idle = p.idle[:len(p.idle)-1]
IdlePop == SubSeq(idle, 1, Len(idle) - 1)

\* mutant: <= for <
CanCreateOffByOne == Cardinality(DOMAIN active) <= MaxSize

\* mutant: one slot is never used
CanCreateTooStrict == Cardinality(DOMAIN active) < MaxSize - 1

\* len(p.active) < p.config.MaxSize
CanCreate == Cardinality(DOMAIN active) < MaxSize

\* mutant: a shut-down pool answers like a cancelled wait
ShutdownResultCanceled == ErrCanceled

\* what Get returns when it finds the pool shut down
ShutdownResult == ErrPoolShutdown

\* mutant: Get goes into the select without p.mu.Unlock()
HolderInSelectKept(p) == p

\* who holds p.mu while caller p is in the select: p.mu.Unlock() comes
\* before it
HolderInSelect(p) == NoHolder

\* One pass of Get's loop body under p.mu, by caller p with context c.
GetPass(p, c) ==
    /\ mu = NoHolder
    /\ IF shutdown
         THEN /\ GetReturn(p, NoConn, ShutdownResult)
              /\ fired' = Fired("Get", NoCallback)
              /\ UNCHANGED <<idle, active, nextConn, idleAge, mu>>
       ELSE IF HasIdle
         THEN /\ active' = MapSet(active, IdleTop, 0)
              /\ idle' = IdlePop
              /\ idleAge' = MapDelete(idleAge, IdleTop)
              /\ GetReturn(p, IdleTop, ErrNil)
              /\ fired' = Fired("Get", "OnPoolGet")
              /\ UNCHANGED <<nextConn, mu>>
       ELSE IF CanCreate
         THEN /\ nextConn \in Conns
              /\ active' = MapSet(active, nextConn, 0)
              /\ nextConn' = nextConn + 1
              /\ GetReturn(p, nextConn, ErrNil)
              /\ fired' = Fired("Get", "OnPoolGet")
              /\ UNCHANGED <<idle, idleAge, mu>>
       ELSE /\ pc' = [pc EXCEPT ![p] = "wait"]
            /\ wake' = [wake EXCEPT ![p] = PollInterval]
            /\ ctx' = [ctx EXCEPT ![p] = c]
            /\ ret' = NoRet
            /\ fired' = Fired("Get", "OnPoolExhausted")
            /\ mu' = HolderInSelect(p)
            /\ UNCHANGED <<idle, active, nextConn, held, idleAge>>
    /\ UNCHANGED <<shutdown, phase, tickPending, sweeper>>

\* A caller calls Get(ctx), whose context may already be done, and makes the
\* first pass of the loop.
GetCall(p, c) ==
    /\ pc[p] = "out"
    /\ GetPass(p, c)
    /\ UNCHANGED notPoolVars

\* The select took case <-time.After(100 * time.Millisecond): the next pass
\* of the loop.
GetRetry(p) ==
    /\ pc[p] = "lock"
    /\ GetPass(p, ctx[p])
    /\ UNCHANGED notPoolVars

\* what the select's ctx.Done() case returns
CtxDoneResult(p) == CtxErr(ctx[p])

\* select: case <-ctx.Done().  A select whose goroutine is parked is settled
\* by the first of its channels to become ready: a Get that is in the select
\* when its context is done (or enters it with a done context, the timer
\* being new) takes this case.
GetSelectCtx(p) ==
    /\ pc[p] = "wait"
    /\ ctx[p] # "live"
    /\ GetReturn(p, NoConn, CtxDoneResult(p))
    /\ fired' = Fired("Get", NoCallback)
    /\ UNCHANGED <<idle, active, shutdown, phase, tickPending, sweeper,
                   nextConn, idleAge, mu>>
    /\ UNCHANGED notPoolVars

\* The context of a Get in progress is cancelled or its deadline passes.
CtxDone(p, c) ==
    /\ pc[p] # "out"
    /\ ctx[p] = "live"
    /\ ctx' = [ctx EXCEPT ![p] = c]
    /\ ret' = NoRet
    /\ fired' = Fired("cancel", NoCallback)
    /\ UNCHANGED <<idle, active, shutdown, phase, tickPending, sweeper,
                   nextConn, pc, wake, held, idleAge, mu>>
    /\ UNCHANGED notPoolVars

\* mutant: Put without the test of p.shutdown
PutIgnoresShutdown(p, client) ==
    /\ pc[p] = "out"
    /\ client \in held[p]
    /\ mu = NoHolder
    /\ held' = [held EXCEPT ![p] = @ \ {client}]
    /\ active' = MapDelete(active, client)
    /\ idle' = Append(idle, client)
    /\ idleAge' = MapSet(idleAge, client, 0)
    /\ fired' = Fired("Put", "OnPoolRelease")
    /\ ret' = NoRet
    /\ UNCHANGED <<shutdown, phase, tickPending, sweeper, nextConn, pc, ctx,
                   wake, mu>>
    /\ UNCHANGED notPoolVars

\* Put(client) by the caller that holds client
Put(p, client) ==
    /\ pc[p] = "out"
    /\ client \in held[p]
    /\ mu = NoHolder
    /\ held' = [held EXCEPT ![p] = @ \ {client}]
    /\ IF shutdown
         THEN /\ fired' = Fired("Put", NoCallback)
              /\ UNCHANGED <<idle, active, idleAge>>
         ELSE /\ active' = MapDelete(active, client)
              /\ idle' = Append(idle, client)
              /\ idleAge' = MapSet(idleAge, client, 0)
              /\ fired' = Fired("Put", "OnPoolRelease")
    /\ ret' = NoRet
    /\ UNCHANGED <<shutdown, phase, tickPending, sweeper, nextConn, pc, ctx,
                   wake, mu>>
    /\ UNCHANGED notPoolVars

\* Put(client) by caller p of a client that p does not hold: one that was
\* released before, one that another caller holds, or one the pool never
\* made.  Put has no test of p.active: delete is a no-op on a missing key
\* and the append is unconditional.
PutNotHeld(p, client) ==
    /\ pc[p] = "out"
    /\ client \notin held[p]
    /\ client < nextConn \/ client = ForeignConn
    /\ mu = NoHolder
    /\ Len(idle) < MaxIdleLen
    /\ IF shutdown
         THEN /\ fired' = Fired("Put", NoCallback)
              /\ UNCHANGED <<idle, active, idleAge>>
         ELSE /\ active' = MapDelete(active, client)
              /\ idle' = Append(idle, client)
              /\ idleAge' = MapSet(idleAge, client, 0)
              /\ fired' = Fired("Put", "OnPoolRelease")
    /\ ret' = NoRet
    /\ UNCHANGED <<shutdown, phase, tickPending, sweeper, nextConn, pc, ctx,
                   wake, held, mu>>
    /\ UNCHANGED notPoolVars

\* cleanup's test of one idle client
SweepKeeps(client) ==
    /\ client \in DOMAIN active
    /\ active[client] < IdleTimeout

\* mutant: the sweep also forgets the checkout time of the connections
\* that are out for IdleTimeout or longer
SweepDropsActive ==
    /\ sweeper = "running"
    /\ tickPending
    /\ mu = NoHolder
    /\ tickPending' = FALSE
    /\ IF shutdown
         THEN /\ sweeper' = "stopped"
              /\ UNCHANGED <<idle, active>>
         ELSE /\ idle' = SelectSeq(idle, SweepKeeps)
              /\ active' = [x \in {y \in DOMAIN active :
                                     active[y] < IdleTimeout} |-> active[x]]
              /\ UNCHANGED sweeper
    /\ ret' = NoRet
    /\ fired' = Fired("cleanup", NoCallback)
    /\ UNCHANGED <<shutdown, phase, nextConn, pc, ctx, wake, held, idleAge, mu>>
    /\ UNCHANGED notPoolVars

\* mutant: cleanup without the test of p.shutdown
SweepIgnoresShutdown ==
    /\ sweeper = "running"
    /\ tickPending
    /\ mu = NoHolder
    /\ tickPending' = FALSE
    /\ idle' = SelectSeq(idle, SweepKeeps)
    /\ ret' = NoRet
    /\ fired' = Fired("cleanup", NoCallback)
    /\ UNCHANGED <<active, shutdown, phase, sweeper, nextConn, pc, ctx, wake,
                   held, idleAge, mu>>
    /\ UNCHANGED notPoolVars

\* One iteration of cleanup's loop: a tick was received from ticker.C.
Sweep ==
    /\ sweeper = "running"
    /\ tickPending
    /\ mu = NoHolder
    /\ tickPending' = FALSE
    /\ IF shutdown
         THEN /\ sweeper' = "stopped"
              /\ UNCHANGED idle
         ELSE /\ idle' = SelectSeq(idle, SweepKeeps)
              /\ UNCHANGED sweeper
    /\ ret' = NoRet
    /\ fired' = Fired("cleanup", NoCallback)
    /\ UNCHANGED <<active, shutdown, phase, nextConn, pc, ctx, wake, held,
                   idleAge, mu>>
    /\ UNCHANGED notPoolVars

\* Shutdown
Shutdown ==
    /\ ~shutdown
    /\ mu = NoHolder
    /\ shutdown' = TRUE
    /\ idle' = <<>>
    /\ active' = EmptyMap
    /\ idleAge' = EmptyMap
    /\ ret' = NoRet
    /\ fired' = Fired("Shutdown", NoCallback)
    /\ UNCHANGED <<phase, tickPending, sweeper, nextConn, pc, ctx, wake, held,
                   mu>>
    /\ UNCHANGED notPoolVars

\* an elapsed time one unit later
Older(m) == [x \in DOMAIN m |-> Min(m[x] + 1, IdleTimeout)]

\* mutant: the select has no timer case
TimerFiresNever(p) == FALSE

\* the timer of caller p fires in the unit of time that passes now, and its
\* select, still waiting for the context, takes the timer
TimerFires(p) == pc[p] = "wait" /\ ctx[p] = "live" /\ wake[p] <= 1

\* One unit of time (100 ms) passes: the timers that expire fire, and the
\* ticker delivers a tick every CleanupPeriod unless one is still waiting in
\* its channel.
Tick ==
    /\ active' = Older(active)
    /\ idleAge' = Older(idleAge)
    /\ wake' = [p \in Callers |-> IF wake[p] > 0 THEN wake[p] - 1 ELSE 0]
    /\ pc' = [p \in Callers |-> IF TimerFires(p) THEN "lock" ELSE pc[p]]
    /\ phase' = (phase + 1) % CleanupPeriod
    /\ tickPending' = IF sweeper = "running" /\ (phase + 1) % CleanupPeriod = 0
                        THEN TRUE ELSE tickPending
    /\ ret' = NoRet
    /\ fired' = Fired("time", NoCallback)
    /\ UNCHANGED <<idle, shutdown, sweeper, nextConn, ctx, held, mu>>
    /\ UNCHANGED notPoolVars

\* ------------------------------------------------------ RetryableClient
NoResp == 0

Statuses == {200, 404, 500, 503}

NilError == [kind |-> "nil", status |-> 0]

\* a network failure of c.client.Do
TransportError == [kind |-> "transport", status |-> 0]

\* c.client.Do's error for a request whose context is cancelled
CanceledError == [kind |-> "context canceled", status |-> 0]

\* fmt.Errorf("server error: %d", resp.StatusCode)
ServerError(status) == [kind |-> "server error", status |-> status]

\* fmt.Errorf("max retries exceeded")
MaxRetriesError == [kind |-> "max retries exceeded", status |-> 0]

\* what one call of c.client.Do can answer: (resp, err)
Answers ==
    IF reqCtx = "canceled"
      THEN {[resp |-> NoResp, err |-> CanceledError]}
      ELSE {[resp |-> st, err |-> NilError] : st \in Statuses}
           \cup {[resp |-> NoResp, err |-> TransportError]}

\* Do has not been called
RetryIdle ==
    /\ maxRetries = 0
    /\ rpc = "idle"
    /\ attempt = 0
    /\ interval = 0
    /\ resp = NoResp
    /\ err = NilError
    /\ reqCtx = "live"
    /\ doRet = [resp |-> NoResp, err |-> NilError]
    /\ outcomes = <<>>
    /\ sleeps = <<>>
    /\ initialInterval = 0
    /\ bodies = {}
    /\ callbacks = <<>>

\* c.config.InitialInterval: the test's, one that a single multiplication
\* takes past MaxInterval, and one above MaxInterval
InitialIntervals == {InitialInterval, 8, 20}

\* c.metrics.<name>(c.provider, ...) with the attempt number and the error
\* it is given (0 and NilError where the callback takes none)
Callback(name, n, e) == [name |-> name, attempt |-> n, err |-> e]

\* Do is called: interval := c.config.InitialInterval; OnRequest;
\* attempt := 0
RetryInit ==
    /\ maxRetries \in 0..MaxRetriesBound
    /\ rpc = "call"
    /\ attempt = 0
    /\ initialInterval \in InitialIntervals
    /\ interval = initialInterval
    /\ resp = NoResp
    /\ err = NilError
    /\ reqCtx \in {"live", "canceled"}
    /\ doRet = [resp |-> NoResp, err |-> NilError]
    /\ outcomes = <<>>
    /\ sleeps = <<>>
    /\ bodies = {}
    /\ callbacks = <<Callback("OnRequest", 0, NilError)>>

\* mutant: only a status below 400 ends the loop
IsSuccessBelow400(a) == a.err = NilError /\ a.resp < 400

\* err == nil && resp.StatusCode < 500
IsSuccess(a) == a.err = NilError /\ a.resp < 500

\* mutant: < for <=
LoopContinuesOffByOne(n) == n < maxRetries

\* attempt <= c.config.MaxRetries
LoopContinues(n) == n <= maxRetries

\* mutant: the body of a failed attempt is left open
ClosesBodyNever(a) == FALSE

\* resp != nil && resp.Body != nil: resp.Body.Close()
ClosesBody(a) == a.resp # NoResp

\* the callbacks of an attempt that did not succeed: OnError if err != nil
FailureCallbacks(a) ==
    IF a.err # NilError THEN <<Callback("OnError", 0, a.err)>> ELSE << >>

\* resp, err = c.client.Do(req), the test of the answer, the callbacks, the
\* close of the body, attempt++
DoAttempt(a) ==
    /\ rpc = "call"
    /\ a \in Answers
    /\ resp' = a.resp
    /\ err' = a.err
    /\ outcomes' = Append(outcomes, a)
    /\ IF IsSuccess(a)
         THEN /\ rpc' = "done"
              /\ doRet' = [resp |-> a.resp, err |-> NilError]
              /\ callbacks' = Append(callbacks, Callback("OnResponse", 0, NilError))
              /\ bodies' = bodies \cup {Len(outcomes) + 1}
              /\ UNCHANGED attempt
         ELSE /\ attempt' = attempt + 1
              /\ rpc' = IF LoopContinues(attempt + 1) THEN "sleep" ELSE "exhausted"
              /\ callbacks' = callbacks \o FailureCallbacks(a)
              /\ bodies' = IF a.resp = NoResp \/ ClosesBody(a)
                             THEN bodies
                             ELSE bodies \cup {Len(outcomes) + 1}
              /\ UNCHANGED doRet
    /\ UNCHANGED <<maxRetries, interval, reqCtx, sleeps, initialInterval>>
    /\ UNCHANGED notRetryVars

\* mutant: the interval grows without the cap
NextIntervalUncapped(i) == i * Multiplier

\* interval = time.Duration(float64(interval) * c.config.Multiplier), capped
NextInterval(i) ==
    IF i * Multiplier > MaxInterval THEN MaxInterval ELSE i * Multiplier

\* if attempt > 0: time.Sleep(interval), which no cancellation interrupts,
\* the next interval, OnRetry
DoSleep ==
    /\ rpc = "sleep"
    /\ sleeps' = Append(sleeps, interval)
    /\ interval' = NextInterval(interval)
    /\ callbacks' = Append(callbacks, Callback("OnRetry", attempt, err))
    /\ rpc' = "call"
    /\ UNCHANGED <<maxRetries, attempt, resp, err, reqCtx, doRet, outcomes,
                   initialInterval, bodies>>
    /\ UNCHANGED notRetryVars

\* mutant: the code after the loop returns err as the last attempt left it
ExhaustedErrorAsLeft(r, e) == e

\* mutant: the 5xx status is not turned into an error
ExhaustedErrorNoStatus(r, e) == IF e = NilError THEN MaxRetriesError ELSE e

\* the error Do returns after the loop
ExhaustedError(r, e) ==
    IF r # NoResp /\ r >= 500 THEN ServerError(r)
    ELSE IF e = NilError THEN MaxRetriesError
    ELSE e

\* past the loop: return nil, err
DoExhausted ==
    /\ rpc = "exhausted"
    /\ err' = ExhaustedError(resp, err)
    /\ doRet' = [resp |-> NoResp, err |-> ExhaustedError(resp, err)]
    /\ rpc' = "done"
    /\ UNCHANGED <<maxRetries, attempt, interval, resp, reqCtx, outcomes, sleeps,
                   initialInterval, bodies, callbacks>>
    /\ UNCHANGED notRetryVars

\* The caller cancels the request's context while Do runs.
ReqCancel ==
    /\ rpc \in {"call", "sleep"}
    /\ reqCtx = "live"
    /\ reqCtx' = "canceled"
    /\ UNCHANGED <<maxRetries, rpc, attempt, interval, resp, err, doRet,
                   outcomes, sleeps, initialInterval, bodies, callbacks>>
    /\ UNCHANGED notRetryVars

\* ------------------------------------------------------- streamRequest
(***************************************************************************)
(* A line of the response body is abstracted to what the decoders look at: *)
(* whether it starts with "data: ", and what follows: nothing, the         *)
(* sentinel [DONE], text that is not JSON, or a JSON event, of which the   *)
(* type discriminator and the text it carries are kept.  Every line of the *)
(* wire ends with a newline, except the last when wireEnd is "EOF-open".   *)
(***************************************************************************)
OpenAI == "openai"
AnthropicSSE == "anthropic-sse"
AnthropicNDJSON == "anthropic-ndjson"
Decoders == {OpenAI, AnthropicSSE, AnthropicNDJSON}

Line(prefix, kind, type, text) ==
    [prefix |-> prefix, kind |-> kind, type |-> type, text |-> text]

Blank == Line(FALSE, "empty", "", "")
\* a line that is neither data:-prefixed nor JSON, such as ": keep-alive"
Comment == Line(FALSE, "text", "", "")
DoneLine == Line(TRUE, "done", "", "")
BadData == Line(TRUE, "text", "", "")
Event(prefix, type, text) == Line(prefix, "event", type, text)

\* the lines a body in data:-prefixed framing is made of
SSELines ==
    {Blank, Comment, DoneLine, BadData,
     Event(TRUE, "content_block_delta", "a"),
     Event(TRUE, "content_block_delta", "b"),
     Event(TRUE, "message_start", "")}

\* the lines a body in newline-delimited JSON framing is made of
NDJSONLines ==
    {Blank, Comment,
     Event(FALSE, "content_block_delta", "a"),
     Event(FALSE, "content_block_delta", "b"),
     Event(FALSE, "message_start", ""),
     Event(FALSE, "error", "x")}

LinesOf(d) == IF d = AnthropicNDJSON THEN NDJSONLines ELSE SSELines

SeqsUpTo(S, n) == UNION {[1..k -> S] : k \in 0..n}

\* an item of responseChan: a ChatResponse with Response.Error or with
\* Response.Message.Content
ErrorItem(e) == [error |-> e, content |-> ""]
ContentItem(text) == [error |-> "", content |-> text]

NoSend == [item |-> ContentItem(""), guarded |-> FALSE, then |-> "", from |-> 0]

StreamIdle ==
    /\ decoder = OpenAI
    /\ wire = <<>>
    /\ wireEnd = "EOF"
    /\ rpos = 0
    /\ sctx = "live"
    /\ spc = "idle"
    /\ pending = NoSend
    /\ recv = <<>>
    /\ recvFrom = <<>>
    /\ closes = 0

\* where the for loop starts: the select on ctx.Done() of the NDJSON
\* decoder, the read of the other two
LoopStart(d) == IF d = AnthropicNDJSON THEN "top" ELSE "read"

\* streamRequest got status 200, made responseChan and started the goroutine
StreamInit ==
    /\ decoder \in Decoders
    /\ wire \in SeqsUpTo(LinesOf(decoder), MaxLines)
    /\ wireEnd \in {"EOF", "EOF-open", "error"}
    /\ wireEnd = "EOF-open" => wire # <<>>
    /\ rpos = 0
    /\ sctx = "live"
    /\ spc = LoopStart(decoder)
    /\ pending = NoSend
    /\ recv = <<>>
    /\ recvFrom = <<>>
    /\ closes = 0

\* json.Unmarshal of what the decoder hands it succeeds: the SSE decoders
\* hand it the line without its prefix, the NDJSON decoder the whole line
ValidJSON(d, line) ==
    /\ line.kind = "event"
    /\ d = AnthropicNDJSON => ~line.prefix

\* what one pass of the loop does with a line: "continue", "return", or
\* "send" an item, with or without a select on ctx.Done(), and then
\* continue or return
Continue == [act |-> "continue", item |-> ContentItem(""), guarded |-> FALSE,
             then |-> ""]
Return == [act |-> "return", item |-> ContentItem(""), guarded |-> FALSE,
           then |-> ""]
Send(item, guarded, then) ==
    [act |-> "send", item |-> item, guarded |-> guarded, then |-> then]

\* models/openai/provider.go, the body of the loop after the read
HandleOpenAI(line) ==
    IF (~line.prefix /\ line.kind = "empty") \/ line = DoneLine THEN Continue
    ELSE IF ~line.prefix THEN Continue
    ELSE IF ~ValidJSON(OpenAI, line)
         THEN Send(ErrorItem("decoding stream response"), FALSE, "continue")
    ELSE Send(ContentItem(line.text), TRUE, "continue")

\* models/anthropic/provider.go, the scanner loop
HandleAnthropicSSE(line) ==
    IF ~line.prefix THEN Continue
    ELSE IF line.kind = "done" THEN Return
    ELSE IF ~ValidJSON(AnthropicSSE, line)
         THEN Send(ErrorItem("error decoding stream"), FALSE, "return")
    ELSE IF line.type \in {"message_start", "message_delta"} THEN Continue
    ELSE IF /\ line.type \in {"content_block_delta", "content_block_start"}
            /\ line.text # ""
         THEN Send(ContentItem(line.text), FALSE, "continue")
    ELSE Continue

\* models/anthropic/provider.go, the ReadBytes loop.  ReadBytes returns the
\* line with its newline, so len(line) == 0 is false of every line read.
HandleAnthropicNDJSON(line) ==
    IF FALSE THEN Continue
    ELSE IF ~ValidJSON(AnthropicNDJSON, line)
         THEN Send(ErrorItem("error decoding stream"), FALSE, "continue")
    ELSE IF line.type = "error"
         THEN Send(ErrorItem("stream error"), FALSE, "continue")
    ELSE Send(ContentItem(line.text), FALSE, "continue")

Handle(d, line) ==
    IF d = OpenAI THEN HandleOpenAI(line)
    ELSE IF d = AnthropicSSE THEN HandleAnthropicSSE(line)
    ELSE HandleAnthropicNDJSON(line)

\* the goroutine goes on as the outcome o of a pass says; n is the line the
\* pass read
Proceed(o, n) ==
    IF o.act = "send"
    THEN /\ spc' = "send"
         /\ pending' = [item |-> o.item, guarded |-> o.guarded,
                        then |-> o.then, from |-> n]
    ELSE /\ spc' = IF o.act = "return" THEN "return" ELSE LoopStart(decoder)
         /\ pending' = NoSend

\* a read that fails: io.EOF ends the loop silently, any other error is sent
\* as an item first
OnReadError(e) ==
    IF e = "EOF" THEN Return
    ELSE Send(ErrorItem("reading stream"), FALSE, "return")

\* the caller cancels ctx
StreamCancel ==
    /\ spc \notin {"idle", "done"}
    /\ sctx = "live"
    /\ sctx' = "canceled"
    /\ UNCHANGED <<decoder, wire, wireEnd, rpos, spc, pending, recv, recvFrom,
                   closes>>
    /\ UNCHANGED notStreamVars

\* NDJSON decoder: select { case <-ctx.Done(): return; default: ... }
LoopTop ==
    /\ spc = "top"
    /\ spc' = IF sctx = "canceled" THEN "return" ELSE "read"
    /\ UNCHANGED <<decoder, wire, wireEnd, rpos, sctx, pending, recv,
                   recvFrom, closes>>
    /\ UNCHANGED notStreamVars

\* the last line of the body has no newline: ReadString and ReadBytes
\* return it together with io.EOF, the scanner returns it as a line
OpenLine == wireEnd = "EOF-open" /\ rpos + 1 = Len(wire)

\* the read returns the next line and the pass handles it
ReadLine ==
    /\ spc = "read"
    /\ rpos < Len(wire)
    /\ rpos' = rpos + 1
    /\ IF OpenLine /\ decoder # AnthropicSSE
       THEN Proceed(OnReadError("EOF"), 0)
       ELSE Proceed(Handle(decoder, wire[rpos + 1]), rpos + 1)
    /\ UNCHANGED <<decoder, wire, wireEnd, sctx, recv, recvFrom, closes>>
    /\ UNCHANGED notStreamVars

\* the read reaches the end of the body
ReadEnd ==
    /\ spc = "read"
    /\ rpos = Len(wire)
    /\ Proceed(OnReadError(IF wireEnd = "error" THEN "error" ELSE "EOF"), 0)
    /\ UNCHANGED <<decoder, wire, wireEnd, rpos, sctx, recv, recvFrom, closes>>
    /\ UNCHANGED notStreamVars

\* the request was made with ctx: once ctx is cancelled a read of the body
\* that finds nothing buffered fails with the context's error
ReadCanceled ==
    /\ spc = "read"
    /\ sctx = "canceled"
    /\ Proceed(OnReadError("context canceled"), 0)
    /\ UNCHANGED <<decoder, wire, wireEnd, rpos, sctx, recv, recvFrom, closes>>
    /\ UNCHANGED notStreamVars

\* the consumer receives the item the goroutine is sending
Deliver ==
    /\ spc = "send"
    /\ recv' = Append(recv, pending.item)
    /\ recvFrom' = Append(recvFrom, pending.from)
    /\ spc' = IF pending.then = "return" THEN "return" ELSE LoopStart(decoder)
    /\ pending' = NoSend
    /\ UNCHANGED <<decoder, wire, wireEnd, rpos, sctx, closes>>
    /\ UNCHANGED notStreamVars

\* OpenAI decoder: select { case <-ctx.Done(): return; case responseChan <- }
SendCtxDone ==
    /\ spc = "send"
    /\ pending.guarded
    /\ sctx = "canceled"
    /\ spc' = "return"
    /\ pending' = NoSend
    /\ UNCHANGED <<decoder, wire, wireEnd, rpos, sctx, recv, recvFrom, closes>>
    /\ UNCHANGED notStreamVars

\* mutant: a return after cancellation leaves the channel open
DeferredCloseNotOnCancel ==
    /\ spc = "return"
    /\ closes' = IF sctx = "canceled" THEN closes ELSE closes + 1
    /\ spc' = "done"
    /\ UNCHANGED <<decoder, wire, wireEnd, rpos, sctx, pending, recv, recvFrom>>
    /\ UNCHANGED notStreamVars

\* the goroutine returns: defer close(responseChan)
DeferredClose ==
    /\ spc = "return"
    /\ closes' = closes + 1
    /\ spc' = "done"
    /\ UNCHANGED <<decoder, wire, wireEnd, rpos, sctx, pending, recv, recvFrom>>
    /\ UNCHANGED notStreamVars

\* --------------------------------------------------------- client.Client
Ops == {"Complete", "StreamComplete", "Chat", "StreamChat"}

\* a *config.Config: nil, or its three required fields ("" when missing)
Config(provider, apiKey, model) ==
    [nil |-> FALSE, provider |-> provider, apiKey |-> apiKey, model |-> model]
NilConfig == [nil |-> TRUE, provider |-> "", apiKey |-> "", model |-> ""]

ProviderNames == {"openai", "anthropic", "mock", "", "cohere"}

Configs ==
    {NilConfig} \cup
    {Config(p, k, m) : p \in ProviderNames, k \in {"", "key"}, m \in {"", "model"}}

\* a *Client: nil, or its provider field ("nil" for a nil interface)
NoClient == [nil |-> TRUE, provider |-> "nil"]
Client(provider) == [nil |-> FALSE, provider |-> provider]

NoLast == [op |-> "", ctx |-> "", err |-> ErrNil, invoked |-> FALSE]

ClientIdle ==
    /\ cfg = NilConfig
    /\ llmClient = NoClient
    /\ newErr = ErrNil
    /\ cpc = "idle"
    /\ calls = [op \in Ops |-> 0]
    /\ lastCall = NoLast

ClientInit ==
    /\ cfg \in Configs
    /\ llmClient = NoClient
    /\ newErr = ErrNil
    /\ cpc = "new"
    /\ calls = [op \in Ops |-> 0]
    /\ lastCall = NoLast

\* openai.NewProvider, anthropic.NewProvider: no field of cfg is checked;
\* the only error is that of pool.Get on the pool just made, which has no
\* connection out and whose context is context.Background()
NewProvider(c) == [provider |-> c.provider, err |-> ErrNil]

\* NewClient(cfg): the client and the error it returns
NewClientResult(c) ==
    IF c.nil
    THEN [client |-> NoClient, err |-> "configuration is required"]
    ELSE IF c.provider \in {"openai", "anthropic"}
    THEN IF NewProvider(c).err # ErrNil
         THEN [client |-> NoClient, err |-> "creating provider"]
         ELSE [client |-> Client(NewProvider(c).provider), err |-> ErrNil]
    ELSE IF c.provider = "mock"
    THEN [client |-> Client("nil"), err |-> ErrNil]
    ELSE [client |-> NoClient, err |-> "unsupported provider"]

NewClient ==
    /\ cpc = "new"
    /\ llmClient' = NewClientResult(cfg).client
    /\ newErr' = NewClientResult(cfg).err
    /\ cpc' = IF NewClientResult(cfg).err = ErrNil THEN "ready" ELSE "failed"
    /\ UNCHANGED <<cfg, calls, lastCall>>
    /\ UNCHANGED notClientVars

\* mutant: validateRequest without the select on ctx.Done()
ValidateRequestNoSelect(c) ==
    IF c = "nil" THEN "context is required" ELSE ErrNil

\* c.validateRequest(ctx)
ValidateRequest(c) ==
    IF c = "nil" THEN "context is required" ELSE CtxErr(c)

TotalCalls == calls["Complete"] + calls["StreamComplete"] + calls["Chat"]
              + calls["StreamChat"]

\* the body the four operations share: validateRequest, then the provider's
\* operation, which answers e
Dispatch(op, c, e) ==
    /\ cpc = "ready"
    /\ IF ValidateRequest(c) # ErrNil
       THEN /\ lastCall' = [op |-> op, ctx |-> c, err |-> ValidateRequest(c),
                        invoked |-> FALSE]
            /\ UNCHANGED <<calls, cpc>>
       ELSE IF llmClient.provider = "nil"
       THEN /\ cpc' = "panicked"
            /\ lastCall' = [op |-> op, ctx |-> c, err |-> "nil pointer dereference",
                        invoked |-> FALSE]
            /\ UNCHANGED calls
       ELSE /\ TotalCalls < MaxCalls
            /\ calls' = [calls EXCEPT ![op] = @ + 1]
            /\ lastCall' = [op |-> op, ctx |-> c, err |-> e, invoked |-> TRUE]
            /\ UNCHANGED cpc
    /\ UNCHANGED <<cfg, llmClient, newErr>>
    /\ UNCHANGED notClientVars

ClientComplete(c, e) == Dispatch("Complete", c, e)

ClientStreamComplete(c, e) == Dispatch("StreamComplete", c, e)

ClientChat(c, e) == Dispatch("Chat", c, e)

ClientStreamChat(c, e) == Dispatch("StreamChat", c, e)

\* ---------------------------------- openai.Provider, anthropic.Provider
Adapters == {"openai", "anthropic"}

\* types.Message
Message(role, content) == [Role |-> role, Content |-> content]

\* a *types.CompletionRequest by its Prompt, a *types.ChatRequest by its
\* Messages
CompletionRequests == {[Prompt |-> ""], [Prompt |-> "Hello"]}
ChatRequests ==
    {[Messages |-> << >>],
     [Messages |-> <<Message("user", "Hello")>>],
     [Messages |-> <<Message("system", "Be brief"), Message("user", "Hello")>>]}

ErrEmptyPrompt == "prompt cannot be empty"
ErrEmptyMessages == "messages cannot be empty"

\* (m *Message) Validate
MessageValidate(m) ==
    IF m.Role = "" THEN "message role cannot be empty"
    ELSE IF m.Role \notin {"system", "user", "assistant"}
    THEN "invalid message role"
    ELSE IF m.Content = "" THEN "message content cannot be empty"
    ELSE ErrNil

\* (r *CompletionRequest) Validate
CompletionRequestValidate(r) ==
    IF r.Prompt = "" THEN ErrEmptyPrompt ELSE ErrNil

\* (r *ChatRequest) Validate: the error of the first message that has one
ChatRequestValidate(r) ==
    IF Len(r.Messages) = 0 THEN ErrEmptyMessages
    ELSE IF \E i \in 1..Len(r.Messages) : MessageValidate(r.Messages[i]) # ErrNil
    THEN LET i == CHOOSE j \in 1..Len(r.Messages) :
                    /\ MessageValidate(r.Messages[j]) # ErrNil
                    /\ \A k \in 1..(j - 1) :
                          MessageValidate(r.Messages[k]) = ErrNil
         IN  MessageValidate(r.Messages[i])
    ELSE ErrNil

\* req.Validate() of the request of operation op
RequestValidate(op, r) ==
    IF op \in {"Complete", "StreamComplete"}
    THEN CompletionRequestValidate(r)
    ELSE ChatRequestValidate(r)

\* the operations of package a begin with
\* if err := req.Validate(); err != nil { return nil, err }
CallsValidate(a) == a = "openai"

NoProvRet == [op |-> "", req |-> [Prompt |-> ""], err |-> ErrNil]

\* no provider code runs
ProviderIdle ==
    /\ adapter = ""
    /\ sent = << >>
    /\ provRet = NoProvRet

\* a Provider of either package
ProviderInit ==
    /\ adapter \in Adapters
    /\ sent = << >>
    /\ provRet = NoProvRet

\* the caller of the pool that NewProvider is
ProviderCaller == 1

\* the *http.Client inside p.client: the one NewProvider got from its pool,
\* NoConn for a provider whose pool is not part of the run
ProviderConn ==
    IF held[ProviderCaller] = {} THEN NoConn
    ELSE CHOOSE c \in held[ProviderCaller] : TRUE

\* mutant: NewProvider gives the connection back to the pool once the
\* RetryableClient is made
NewProviderPoolPutsBack ==
    /\ adapter \in Adapters
    /\ pc[ProviderCaller] = "out"
    /\ held[ProviderCaller] = {}
    /\ nextConn = 1
    /\ nextConn' = nextConn + 1
    /\ idle' = <<nextConn>>
    /\ idleAge' = MapSet(idleAge, nextConn, 0)
    /\ ret' = NoRet
    /\ fired' = Fired("Put", "OnPoolRelease")
    /\ UNCHANGED <<active, shutdown, phase, tickPending, sweeper, pc, ctx, wake,
                   held, mu>>
    /\ UNCHANGED notPoolVars

\* NewProvider: pool := resource.NewConnectionPool(...);
\* httpClient, err := pool.Get(context.Background())
NewProviderPool ==
    /\ adapter \in Adapters
    /\ held[ProviderCaller] = {}
    /\ nextConn = 1
    /\ GetCall(ProviderCaller, "live")

\* what the four operations share: the validation the package has, then
\* the body and the HTTP request (p.doRequest or p.streamRequest), which
\* the server answers with e
ProviderCall(op, r, e) ==
    /\ adapter \in Adapters
    /\ IF CallsValidate(adapter) /\ RequestValidate(op, r) # ErrNil
       THEN /\ provRet' = [op |-> op, req |-> r, err |-> RequestValidate(op, r)]
            /\ UNCHANGED sent
       ELSE /\ Len(sent) < MaxCalls
            /\ sent' = Append(sent, [op |-> op, req |-> r, conn |-> ProviderConn])
            /\ provRet' = [op |-> op, req |-> r, err |-> e]
    /\ UNCHANGED adapter
    /\ UNCHANGED notProviderVars

ProviderComplete(r, e) == ProviderCall("Complete", r, e)

ProviderStreamComplete(r, e) == ProviderCall("StreamComplete", r, e)

ProviderChat(r, e) == ProviderCall("Chat", r, e)

ProviderStreamChat(r, e) == ProviderCall("StreamChat", r, e)

\* -------------------------------------------------------- cost.CostTracker
\* the (provider, model) pairs of the calls
Pairs == {<<"openai", "gpt-4">>, <<"anthropic", "claude-2">>,
          <<"openai", "davinci">>}

\* GetProviderRates()[provider][model], the zero TokenRates for a pair the
\* table does not have; per token, in units of 10^-7 dollar
TokenRates(prompt, completion) ==
    [PromptTokenRate |-> prompt, CompletionTokenRate |-> completion]

GetProviderRates(pair) ==
    IF pair = <<"openai", "gpt-4">> THEN TokenRates(300, 600)
    ELSE IF pair = <<"openai", "gpt-3.5-turbo">> THEN TokenRates(20, 20)
    ELSE IF pair = <<"anthropic", "claude-2.1">> THEN TokenRates(80, 240)
    ELSE IF pair = <<"anthropic", "claude-2">> THEN TokenRates(80, 240)
    ELSE IF pair = <<"anthropic", "claude-instant">> THEN TokenRates(8, 24)
    ELSE TokenRates(0, 0)

\* types.Usage
Usage(prompt, completion, total) ==
    [PromptTokens |-> prompt, CompletionTokens |-> completion,
     TotalTokens |-> total]

\* the usages of the tests
Usages == {Usage(100, 50, 150), Usage(20000, 10000, 0), Usage(10000, 5000, 0)}

\* budgets: 1.00 dollar as in the test, and 0.60 dollar
Budgets == {10000000, 6000000}

\* &UsageStats{}
ZeroStats == [TotalTokens |-> 0, TotalCost |-> 0, RequestCount |-> 0]

NoTrack == [n |-> 0, pair |-> <<"", "">>, err |-> ErrNil]
NoCost == [cost |-> 0, err |-> ErrNil]

\* the nil *UsageStats
NoPair == <<"", "">>
NoStats == [ptr |-> NoPair, err |-> ErrNil, seen |-> ZeroStats]

NewCostTracker ==
    /\ usage = [pr \in {} |-> ZeroStats]
    /\ budgets = [pr \in {} |-> 0]
    /\ trackRet = NoTrack
    /\ costRet = NoCost
    /\ statsRet = NoStats
    /\ tracked = [pr \in Pairs |-> <<>>]

\* cost := float64(usage.PromptTokens) * rates.PromptTokenRate / 1000 + ...
Cost(pair, u) ==
    u.PromptTokens * GetProviderRates(pair).PromptTokenRate
    + u.CompletionTokens * GetProviderRates(pair).CompletionTokenRate

\* c.usage[provider][model].TotalCost, 0 for a pair with no entry
CurrentCost(pair) ==
    IF pair \in DOMAIN usage THEN usage[pair].TotalCost ELSE 0

\* mutant: the total is taken as prompt plus completion tokens
UpdateStatsSumsParts(stats, u, cost) ==
    [TotalTokens |-> stats.TotalTokens + u.PromptTokens + u.CompletionTokens,
     TotalCost |-> stats.TotalCost + cost,
     RequestCount |-> stats.RequestCount + 1]

\* stats.TotalTokens += usage.TotalTokens; stats.TotalCost += cost;
\* stats.RequestCount++
UpdateStats(stats, u, cost) ==
    [TotalTokens |-> stats.TotalTokens + u.TotalTokens,
     TotalCost |-> stats.TotalCost + cost,
     RequestCount |-> stats.RequestCount + 1]

\* c.usage after "Initialize maps if they don't exist"
WithEntry(pair) ==
    IF pair \in DOMAIN usage THEN usage ELSE MapSet(usage, pair, ZeroStats)

\* mutant: >= for >
OverBudgetAtBudget(pair, cost) ==
    /\ pair \in DOMAIN budgets
    /\ WithEntry(pair)[pair].TotalCost + cost >= budgets[pair]

\* the budget check of TrackUsage
OverBudget(pair, cost) ==
    /\ pair \in DOMAIN budgets
    /\ WithEntry(pair)[pair].TotalCost + cost > budgets[pair]

TrackUsage(pair, u) ==
    /\ trackRet.n < MaxTracks
    /\ IF OverBudget(pair, Cost(pair, u))
       THEN /\ usage' = WithEntry(pair)
            /\ trackRet' = [n |-> trackRet.n + 1, pair |-> pair,
                            err |-> "budget exceeded"]
            /\ UNCHANGED tracked
       ELSE /\ usage' = MapSet(WithEntry(pair), pair,
                          UpdateStats(WithEntry(pair)[pair], u, Cost(pair, u)))
            /\ trackRet' = [n |-> trackRet.n + 1, pair |-> pair, err |-> ErrNil]
            /\ tracked' = [tracked EXCEPT ![pair] = Append(@, u)]
    /\ UNCHANGED <<budgets, costRet, statsRet>>
    /\ UNCHANGED notCostVars

\* GetCost(provider, model): the cost and the error it returns
GetCostResult(pair) ==
    IF pair \notin DOMAIN usage
    THEN [cost |-> 0, err |-> "no usage tracked"]
    ELSE [cost |-> usage[pair].TotalCost, err |-> ErrNil]

GetCost(pair) ==
    /\ costRet' = GetCostResult(pair)
    /\ UNCHANGED <<usage, budgets, trackRet, tracked, statsRet>>
    /\ UNCHANGED notCostVars

SetBudget(pair, budget) ==
    /\ budgets' = MapSet(budgets, pair, budget)
    /\ UNCHANGED <<usage, trackRet, costRet, tracked, statsRet>>
    /\ UNCHANGED notCostVars

\* what the caller reads through the pointer GetUsageStats returned: the
\* UsageStats that c.usage holds now
Deref(r) == usage[r.ptr]

\* GetUsageStats(provider, model, start, end): the pointer and the error
\* it returns; inRange says whether LastRequestTime is within [start, end]
GetUsageStatsResult(pair, inRange) ==
    IF pair \notin DOMAIN usage
    THEN [ptr |-> NoPair, err |-> "no usage tracked", seen |-> ZeroStats]
    ELSE IF ~inRange
    THEN [ptr |-> NoPair, err |-> "no usage data in specified time range",
          seen |-> ZeroStats]
    ELSE [ptr |-> pair, err |-> ErrNil, seen |-> usage[pair]]

GetUsageStats(pair, inRange) ==
    /\ statsRet' = GetUsageStatsResult(pair, inRange)
    /\ UNCHANGED <<usage, budgets, trackRet, costRet, tracked>>
    /\ UNCHANGED notCostVars

\* -------------------------------------------------------- specifications
Init == PoolInit /\ RetryIdle /\ StreamIdle /\ ClientIdle /\ NewCostTracker
    /\ ProviderIdle

Next ==
    \/ \E p \in Callers, c \in {"live", "canceled", "deadline"} : GetCall(p, c)
    \/ \E p \in Callers : GetRetry(p)
    \/ \E p \in Callers : GetSelectCtx(p)
    \/ \E p \in Callers, c \in {"canceled", "deadline"} : CtxDone(p, c)
    \/ \E p \in Callers, client \in Conns : Put(p, client)
    \/ Sweep
    \/ Shutdown
    \/ Tick

\* the connection pool under concurrent callers
Spec == Init /\ [][Next]_vars

\* The pool with callers whose contexts are never cancelled, under the
\* scheduling the Go runtime gives: time passes, a goroutine that can run
\* does run, and sync.Mutex lets every goroutine that asks for it have it.
InitLive == Init

\* the goroutine that uses the pool in SpecPutAny
PutAnyCaller == 1

NextPutAny ==
    \/ GetCall(PutAnyCaller, "live")
    \/ GetRetry(PutAnyCaller)
    \/ \E client \in Conns : Put(PutAnyCaller, client)
    \/ \E client \in Conns \cup {ForeignConn} :
          PutNotHeld(PutAnyCaller, client)
    \/ Sweep
    \/ Shutdown
    \/ Tick

\* the pool with a caller that also Puts clients it does not hold
SpecPutAny == Init /\ [][NextPutAny]_vars

NextLive ==
    \/ \E p \in Callers : GetCall(p, "live")
    \/ \E p \in Callers : GetRetry(p)
    \/ \E p \in Callers : \E client \in Conns : Put(p, client)
    \/ Sweep
    \/ Shutdown
    \/ Tick

Fairness ==
    /\ WF_vars(Tick)
    /\ WF_vars(Sweep)
    /\ \A p \in Callers : WF_vars(GetRetry(p))

SpecLive == InitLive /\ [][NextLive]_vars /\ Fairness

InitRetry == PoolInit /\ RetryInit /\ StreamIdle /\ ClientIdle /\ NewCostTracker
    /\ ProviderIdle

NextRetry ==
    \/ \E a \in Answers : DoAttempt(a)
    \/ DoSleep
    \/ DoExhausted
    \/ ReqCancel

\* one call of RetryableClient.Do
SpecRetry == InitRetry /\ [][NextRetry]_vars

\* Do's goroutine runs: the backend answers every c.client.Do, time.Sleep
\* returns, and the code after the loop is reached
RetryFairness ==
    /\ WF_vars(\E a \in Answers : DoAttempt(a))
    /\ WF_vars(DoSleep)
    /\ WF_vars(DoExhausted)

SpecRetryLive == SpecRetry /\ RetryFairness

InitStream == PoolInit /\ RetryIdle /\ StreamInit /\ ClientIdle /\ NewCostTracker
    /\ ProviderIdle

NextStream ==
    \/ StreamCancel
    \/ LoopTop
    \/ ReadLine
    \/ ReadEnd
    \/ ReadCanceled
    \/ Deliver
    \/ SendCtxDone
    \/ DeferredClose

\* one stream: the decoding goroutine, its consumer and the caller's context
SpecStream == InitStream /\ [][NextStream]_vars

InitClient == PoolInit /\ RetryIdle /\ StreamIdle /\ ClientInit /\ NewCostTracker
    /\ ProviderIdle

Contexts == {"nil", "live", "canceled", "deadline"}
ProviderAnswers == {ErrNil, "provider error"}

NextClient ==
    \/ NewClient
    \/ \E c \in Contexts, e \in ProviderAnswers : ClientComplete(c, e)
    \/ \E c \in Contexts, e \in ProviderAnswers : ClientStreamComplete(c, e)
    \/ \E c \in Contexts, e \in ProviderAnswers : ClientChat(c, e)
    \/ \E c \in Contexts, e \in ProviderAnswers : ClientStreamChat(c, e)

\* one configuration, NewClient and the calls made on the client it returns
SpecClient == InitClient /\ [][NextClient]_vars

InitCost ==
    PoolInit /\ RetryIdle /\ StreamIdle /\ ClientIdle /\ NewCostTracker
    /\ ProviderIdle

NextCost ==
    \/ \E pair \in Pairs, u \in Usages : TrackUsage(pair, u)
    \/ \E pair \in Pairs : GetCost(pair)
    \/ \E pair \in Pairs, budget \in Budgets : SetBudget(pair, budget)

\* one CostTracker and the calls made on it, each under c.mu
SpecCost == InitCost /\ [][NextCost]_vars

\* the pairs of the calls on a tracker whose statistics are read
StatsPairs == {<<"openai", "gpt-4">>, <<"anthropic", "claude-2">>}

\* SetBudget by a caller that configures a budget the usage is within and
\* later only raises it
SetBudgetNotLowered(pair, budget) ==
    /\ budget >= CurrentCost(pair)
    /\ pair \in DOMAIN budgets => budget >= budgets[pair]
    /\ SetBudget(pair, budget)

NextTracker ==
    \/ \E pair \in StatsPairs, u \in Usages : TrackUsage(pair, u)
    \/ \E pair \in StatsPairs : GetCost(pair)
    \/ \E pair \in StatsPairs, inRange \in BOOLEAN : GetUsageStats(pair, inRange)
    \/ \E pair \in StatsPairs, budget \in Budgets :
          SetBudgetNotLowered(pair, budget)

\* one CostTracker whose budgets are never lowered, with the readers of
\* its statistics
SpecTracker == InitCost /\ [][NextTracker]_vars

InitProvider ==
    /\ PoolInit /\ RetryIdle /\ StreamIdle /\ ClientIdle /\ NewCostTracker
    /\ ProviderInit

NextProvider ==
    \/ \E r \in CompletionRequests, e \in ProviderAnswers : ProviderComplete(r, e)
    \/ \E r \in CompletionRequests, e \in ProviderAnswers :
          ProviderStreamComplete(r, e)
    \/ \E r \in ChatRequests, e \in ProviderAnswers : ProviderChat(r, e)
    \/ \E r \in ChatRequests, e \in ProviderAnswers : ProviderStreamChat(r, e)

\* one Provider and the operations called on it
SpecProvider == InitProvider /\ [][NextProvider]_vars

\* NewProvider has returned a Provider
Constructed == held[ProviderCaller] # {}

NextProviderPool ==
    \/ NewProviderPool
    \/ /\ Constructed
       /\ \E r \in CompletionRequests, e \in ProviderAnswers : ProviderComplete(r, e)
    \/ /\ Constructed
       /\ \E r \in CompletionRequests, e \in ProviderAnswers :
             ProviderStreamComplete(r, e)
    \/ /\ Constructed
       /\ \E r \in ChatRequests, e \in ProviderAnswers : ProviderChat(r, e)
    \/ /\ Constructed
       /\ \E r \in ChatRequests, e \in ProviderAnswers : ProviderStreamChat(r, e)
    \/ Sweep
    \/ Tick

\* one Provider from its construction on, with the pool it made and the
\* pool's sweeper
SpecProviderPool == InitProvider /\ [][NextProviderPool]_vars

\* ----------------------------------------------------------------- claims

\* C1: in every reachable state the number of connections checked out
\* (returned by Get and not yet Put) is at most MaxSize.
C1_CheckedOutBounded == Cardinality(CheckedOut) <= MaxSize

\* C1 witness: the pool is full and a Get is waiting for a connection.
C1_Witness ==
    /\ Cardinality(CheckedOut) = MaxSize
    /\ \E p \in Callers : pc[p] = "wait"

\* the step is the call of Get by p (its first pass of the loop)
IsGetCall(p) == pc[p] = "out" /\ (pc'[p] = "wait" \/ ret'.p = p)

\* the step returns from a Get of p that found the pool exhausted earlier
IsWaitReturn(p) == pc[p] # "out" /\ ret'.p = p

\* the step returns from a Get of p that is waiting in the select
IsSelectReturn(p) == pc[p] = "wait" /\ ret'.p = p

\* C2: on a pool that is not shut down, a Get called while fewer than MaxSize
\* connections are checked out returns a connection at once; a Get called
\* while MaxSize are checked out waits, and while it waits it returns a
\* connection only after a Put made room (fewer than MaxSize checked out), and
\* returns without one only when its context is done or the pool shut down.
C2_BlocksOnlyWhenFull ==
    [][\A p \in Callers :
        /\ (IsGetCall(p) /\ ~shutdown /\ Cardinality(CheckedOut) < MaxSize)
              => /\ pc'[p] = "out"
                 /\ ret'.err = ErrNil
                 /\ ret'.client \in Conns
                 /\ ~ret'.waited
        /\ (IsGetCall(p) /\ ~shutdown /\ Cardinality(CheckedOut) = MaxSize)
              => pc'[p] = "wait" /\ held' = held
        /\ (IsWaitReturn(p) /\ ret'.client # NoConn)
              => Cardinality(CheckedOut) < MaxSize
        /\ (IsWaitReturn(p) /\ ret'.client = NoConn)
              => shutdown \/ ctx[p] # "live"
      ]_vars

\* C2 witness: a Get that had to wait has just returned a connection.
C2_Witness == ret.waited /\ ret.client # NoConn

\* C3: a connection that a caller holds (got from Get, not yet Put) is never
\* returned by another Get.
C3_Exclusive ==
    [][\A p \in Callers :
        (ret'.p = p /\ ret'.client # NoConn)
           => /\ ret'.client \notin CheckedOut
              /\ ret'.client \in held'[p]
      ]_vars

\* C3 witness: a Get has just returned a connection that had been idle, while
\* another caller holds a connection of its own.
C3_Witness ==
    /\ ret.client # NoConn
    /\ ret.client # nextConn - 1
    /\ \E q \in Callers \ {ret.p} : held[q] # {}

\* C4: a connection that was Put back less than IdleTimeout ago and has not
\* been re-acquired is still in the idle list (so that Get returns it, and no
\* sweep in between removed it).
C4_IdleSurvivesWithinTimeout ==
    \A c \in DOMAIN idleAge : idleAge[c] < IdleTimeout => c \in Range(idle)

C6_EveryGetShutdownError ==
    [][\A p \in Callers :
        (shutdown /\ ret'.p = p)
           => ret'.err = ErrPoolShutdown /\ ret'.client = NoConn
      ]_vars

\* C6 amended: after Shutdown no Get returns a connection; a Get called after
\* Shutdown, and a waiting Get at its next poll, return the shutdown error; a
\* Get whose context is done while it waits for that poll returns the
\* context's error.
C6_ShutdownRejects ==
    [][\A p \in Callers :
        (shutdown /\ ret'.p = p)
           => /\ ret'.client = NoConn
              /\ held' = held
              /\ pc[p] \in {"out", "lock"} => ret'.err = ErrPoolShutdown
              /\ pc[p] = "wait" => ctx[p] # "live" /\ ret'.err = CtxErr(ctx[p])
      ]_vars

\* C6 witness: a Get that was waiting has just returned the shutdown error.
C6_Witness == shutdown /\ ret.waited /\ ret.err = ErrPoolShutdown

\* an attempt that did not succeed: a transport failure or a 5xx response
Failed(a) == a.err # NilError \/ a.resp >= 500

\* the backend answered 500 to the first k attempts and a non-5xx status after
FailsFirst(k) ==
    \A i \in 1..Len(outcomes) :
        IF i <= k THEN outcomes[i] = [resp |-> 500, err |-> NilError]
        ELSE outcomes[i].err = NilError /\ outcomes[i].resp < 500

\* C7: against a backend that answers 500 to the first k attempts and a non-5xx
\* status afterwards, Do returns that response and a nil error after exactly
\* k+1 attempts when k <= MaxRetries, and an error and no response after
\* exactly MaxRetries+1 attempts when k > MaxRetries.
C7_RetriesUntilSuccess ==
    rpc = "done" =>
        \A k \in 0..(maxRetries + 1) :
            FailsFirst(k) =>
                IF k <= maxRetries
                  THEN /\ Len(outcomes) = k + 1
                       /\ doRet = [resp |-> outcomes[k + 1].resp, err |-> NilError]
                  ELSE /\ Len(outcomes) = maxRetries + 1
                       /\ doRet.resp = NoResp
                       /\ doRet.err # NilError

\* C7 witness: Do succeeded at its third attempt, after two 500 answers.
C7_Witness ==
    /\ rpc = "done"
    /\ FailsFirst(2)
    /\ Len(outcomes) = 3
    /\ doRet.err = NilError

\* the first attempt was answered with a 4xx status
First4xx ==
    /\ Len(outcomes) >= 1
    /\ outcomes[1].err = NilError
    /\ outcomes[1].resp >= 400
    /\ outcomes[1].resp < 500

\* C8 as stated: after a 4xx answer to the first attempt Do makes no other
\* attempt, does not sleep, and returns a failure.
C8_4xxIsFailure ==
    First4xx =>
        /\ rpc = "done"
        /\ Len(outcomes) = 1
        /\ sleeps = <<>>
        /\ doRet.err # NilError

\* C8 amended: after a 4xx answer to the first attempt Do makes no other
\* attempt, does not sleep, and returns that response with a nil error.
C8_4xxReturnedAtOnce ==
    First4xx =>
        /\ rpc = "done"
        /\ Len(outcomes) = 1
        /\ sleeps = <<>>
        /\ doRet = [resp |-> outcomes[1].resp, err |-> NilError]

\* C8 witness: Do has returned after a 404 answer to its first attempt.
C8_Witness == rpc = "done" /\ First4xx /\ maxRetries > 0

\* C9: an attempt that failed because the request's context is cancelled is
\* not retried: it is the last attempt, and Do does not sleep after it.
C9_CancelNotRetried ==
    \A i \in 1..Len(outcomes) :
        outcomes[i].err = CanceledError
           => i = Len(outcomes) /\ rpc \in {"exhausted", "done"}

\* C10: when all MaxRetries+1 attempts have failed, Do returns no response
\* and a non-nil error: the server error with the 5xx status when the last
\* attempt ended in a 5xx response, the transport error when it ended in a
\* transport failure.
C10_ExhaustionError ==
    (rpc = "done" /\ \A i \in 1..Len(outcomes) : Failed(outcomes[i])) =>
        LET last == outcomes[Len(outcomes)] IN
        /\ Len(outcomes) = maxRetries + 1
        /\ doRet.resp = NoResp
        /\ doRet.err # NilError
        /\ last.err = NilError => doRet.err = ServerError(last.resp)
        /\ last.err # NilError => doRet.err = last.err
        /\ doRet.err.kind = "server error" <=> last.err = NilError

\* C10 witness: Do gave up after a transport failure followed by a 503.
C10_Witness ==
    /\ rpc = "done"
    /\ Len(outcomes) = 2
    /\ outcomes[1].err = TransportError
    /\ doRet.err = ServerError(503)

\* C11: the decoding goroutine of each streamRequest closes responseChan
\* exactly once when it exits, whatever ended the loop (end of stream, read
\* error, decode error, sentinel, cancellation), is never in a send once
\* the channel is closed, and closes it at no other time.
C11_ClosedExactlyOnce ==
    /\ closes <= 1
    /\ spc = "done" => closes = 1
    /\ closes >= 1 => spc = "done" /\ pending = NoSend

\* C11 witness: a goroutine has exited after the context was cancelled, with
\* an item delivered before, and the channel is closed.
C11_Witness == spc = "done" /\ sctx = "canceled" /\ closes = 1 /\ recv # <<>>

\* the texts of the content items of a sequence of items, in order
RECURSIVE Texts(_)
Texts(items) ==
    IF items = <<>> THEN <<>>
    ELSE IF Head(items).error = "" THEN <<Head(items).content>> \o Texts(Tail(items))
    ELSE Texts(Tail(items))

\* line is a content event in the framing of decoder d
IsContentEvent(d, line) ==
    /\ line.kind = "event"
    /\ line.type = "content_block_delta"
    /\ line.prefix = (d # AnthropicNDJSON)

\* the texts of the content events of a sequence of lines, in order
RECURSIVE WireTexts(_, _)
WireTexts(d, lines) ==
    IF lines = <<>> THEN <<>>
    ELSE IF IsContentEvent(d, Head(lines))
         THEN <<Head(lines).text>> \o WireTexts(d, Tail(lines))
    ELSE WireTexts(d, Tail(lines))

\* the stream ran to its end with nothing in its way: the context live, the
\* body ended by EOF after a newline, no sentinel and no error item
CleanStream ==
    /\ spc = "done"
    /\ sctx = "live"
    /\ wireEnd = "EOF"
    /\ \A k \in DOMAIN wire : wire[k] # DoneLine
    /\ \A i \in DOMAIN recv : recv[i].error = ""

\* C12: within one stream the fragments the consumer receives are the
\* content events of the wire, in arrival order, none duplicated, dropped
\* or reordered, and lines without a content event contribute nothing.
C12_FragmentsAreWireContent ==
    CleanStream => Texts(recv) = WireTexts(decoder, wire)

\* C13: once the caller's context is cancelled the decoder emits no further
\* item on its channel.
C13_NoItemAfterCancel ==
    [][sctx = "canceled" => recv' = recv]_vars

\* position of the first line of the wire that satisfies P, 0 if none
FirstLine(P(_)) ==
    IF \E k \in DOMAIN wire : P(wire[k])
    THEN CHOOSE k \in DOMAIN wire :
            P(wire[k]) /\ \A j \in 1..(k - 1) : ~P(wire[j])
    ELSE 0

IsSentinel(line) == line = DoneLine

\* C14: in data:-prefixed framing the sentinel "data: [DONE]" ends the
\* stream: the content events before it are emitted in order, nothing from
\* the sentinel on is emitted, no error item is produced and the channel is
\* closed.  (Stated of bodies that end by EOF and whose lines before the
\* sentinel all decode.)
C14_SentinelEndsStream ==
    LET k == FirstLine(IsSentinel) IN
    (/\ decoder \in {OpenAI, AnthropicSSE}
     /\ spc = "done"
     /\ sctx = "live"
     /\ wireEnd = "EOF"
     /\ k > 0
     /\ \A j \in 1..(k - 1) : wire[j] # BadData)
    => /\ \A i \in DOMAIN recv :
             recv[i].error = "" /\ recvFrom[i] \in 1..(k - 1)
       /\ \A j \in 1..(k - 1) :
             IsContentEvent(decoder, wire[j])
                => \E i \in DOMAIN recv :
                      recvFrom[i] = j /\ recv[i] = ContentItem(wire[j].text)
       /\ \A i, j \in DOMAIN recv : i < j => recvFrom[i] < recvFrom[j]
       /\ closes = 1

\* a line that is not empty and is not JSON
IsMalformed(line) == line.kind = "text"

\* C15: in newline-delimited JSON framing the first non-empty line that is
\* not valid JSON yields exactly one error item, which is the last item of
\* the stream: no later line of the input yields an item.  (Stated of
\* bodies that end by EOF after a newline.)
C15_MalformedLineIsTerminal ==
    LET k == FirstLine(IsMalformed) IN
    (/\ decoder = AnthropicNDJSON
     /\ spc = "done"
     /\ sctx = "live"
     /\ wireEnd = "EOF"
     /\ k > 0)
    => /\ recv # <<>>
       /\ recvFrom[Len(recv)] = k
       /\ recv[Len(recv)].error # ""
       /\ \A i \in DOMAIN recv : recvFrom[i] = k => i = Len(recv)

\* C16: in newline-delimited JSON framing every content-delta event read
\* yields exactly one fragment, carrying its text, a message-lifecycle event
\* yields no item, and the number of fragments is the number of
\* content-delta events read.
C16_OneFragmentPerDelta ==
    (/\ decoder = AnthropicNDJSON
     /\ spc = "done"
     /\ sctx = "live"
     /\ wireEnd # "EOF-open")
    => /\ \A k \in 1..rpos :
            LET from == {i \in DOMAIN recv : recvFrom[i] = k} IN
            /\ IsContentEvent(decoder, wire[k])
                  => /\ Cardinality(from) = 1
                     /\ \A i \in from : recv[i] = ContentItem(wire[k].text)
            /\ (wire[k].kind = "event" /\ wire[k].type = "message_start")
                  => from = {}
       /\ Len(Texts(recv))
             = Cardinality({k \in 1..rpos : IsContentEvent(decoder, wire[k])})

\* C17: a Complete, StreamComplete, Chat or StreamChat of the Client called
\* with a context that is already done returns the context's error and does
\* not invoke the provider.
C17_DoneContextFailsFast ==
    [][lastCall'.ctx \in {"canceled", "deadline"}
          => /\ lastCall'.err = IF lastCall'.ctx = "canceled" THEN ErrCanceled
                            ELSE ErrDeadlineExceeded
             /\ ~lastCall'.invoked
             /\ calls' = calls
      ]_vars

\* C17 witness: a StreamChat with a cancelled context has just returned, on
\* a client whose provider had been invoked before.
C17_Witness ==
    /\ lastCall.op = "StreamChat"
    /\ lastCall.ctx = "canceled"
    /\ lastCall.err = ErrCanceled
    /\ TotalCalls > 0

\* a configuration that is invalid at construction: no configuration, no
\* credential, no model, or a provider NewClient has no case for
InvalidConfig(c) ==
    \/ c.nil
    \/ c.apiKey = ""
    \/ c.model = ""
    \/ c.provider \notin {"openai", "anthropic", "mock"}

\* C18: NewClient returns an error and no client for every configuration
\* that is invalid at construction.
C18_InvalidConfigRejected ==
    (cpc \notin {"idle", "new"} /\ InvalidConfig(cfg))
       => newErr # ErrNil /\ llmClient = NoClient

\* the step is a TrackUsage for pair that returned the budget error
IsRejectedTrack(pair) ==
    /\ trackRet'.n = trackRet.n + 1
    /\ trackRet'.pair = pair
    /\ trackRet'.err # ErrNil

\* C19: a TrackUsage rejected for exceeding the budget of its pair leaves
\* the tracker unchanged: GetCost for the pair returns the same value and
\* the same error (or none) right before and right after the call, and the
\* request count and token total are the same.
C19_RejectedTrackChangesNothing ==
    [][\A pair \in Pairs :
          IsRejectedTrack(pair)
             => /\ GetCostResult(pair)' = GetCostResult(pair)
                /\ usage' = usage
      ]_vars

RECURSIVE SumCosts(_, _)
SumCosts(pair, us) ==
    IF us = <<>> THEN 0
    ELSE Head(us).PromptTokens * GetProviderRates(pair).PromptTokenRate
         + Head(us).CompletionTokens * GetProviderRates(pair).CompletionTokenRate
         + SumCosts(pair, Tail(us))

RECURSIVE SumTotalTokens(_)
SumTotalTokens(us) ==
    IF us = <<>> THEN 0 ELSE Head(us).TotalTokens + SumTotalTokens(Tail(us))

\* C20: for every pair, after any sequence of accepted TrackUsage calls the
\* cumulative cost is the sum of the calls' costs (prompt tokens x prompt
\* rate + completion tokens x completion rate), TotalTokens is the sum of
\* the calls' usage.TotalTokens and RequestCount is the number of accepted
\* calls.
C20_StatsAreSums ==
    \A pair \in Pairs :
        LET stats == IF pair \in DOMAIN usage THEN usage[pair] ELSE ZeroStats IN
        /\ stats.TotalCost = SumCosts(pair, tracked[pair])
        /\ stats.TotalTokens = SumTotalTokens(tracked[pair])
        /\ stats.RequestCount = Len(tracked[pair])

\* C20 witness: two usages were accepted for openai gpt-4, one of them with
\* a TotalTokens of its own, and a third call has just been rejected.
C20_Witness ==
    /\ Len(tracked[<<"openai", "gpt-4">>]) = 2
    /\ trackRet = [n |-> 3, pair |-> <<"openai", "gpt-4">>,
                   err |-> "budget exceeded"]
    /\ usage[<<"openai", "gpt-4">>].TotalTokens = 150
    /\ usage[<<"openai", "gpt-4">>].TotalCost = 6060000

\* the step is a pass of Get's loop by caller p: its first one or one after
\* a timer
IsPass(p) ==
    /\ pc[p] \in {"out", "lock"}
    /\ ret'.p = p \/ pc'[p] = "wait"

\* the step is Put(c) by caller p
IsPut(p, c) == c \in held[p] /\ c \notin held'[p]

\* C21: on a live pool whose idle list is not empty, Get returns the idle
\* connection that was released last (no idle connection was released after
\* it), creates none and marks it active; and the connection a Put releases
\* is that last one, so that Get, Put(c), Get with no sweep in between
\* returns c again.
C21_GetReusesLastReleased ==
    [][/\ \A p \in Callers :
            (IsPass(p) /\ ~shutdown /\ HasIdle)
               => /\ ret'.p = p
                  /\ ret'.err = ErrNil
                  /\ ret'.client = idle[Len(idle)]
                  /\ \A c \in Range(idle) :
                        idleAge[ret'.client] <= idleAge[c]
                  /\ nextConn' = nextConn
                  /\ idle' = SubSeq(idle, 1, Len(idle) - 1)
                  /\ ret'.client \in DOMAIN active'
                  /\ active'[ret'.client] = 0
                  /\ ret'.client \in held'[p]
       /\ \A p \in Callers : \A c \in Conns :
            (IsPut(p, c) /\ ~shutdown) => idle'[Len(idle')] = c
      ]_vars

\* C21 witness: a Get has just returned the last released of two idle
\* connections.
C21_Witness ==
    /\ fired = Fired("Get", "OnPoolGet")
    /\ ret.client \in Conns
    /\ Len(idle) = 1
    /\ idle[1] # ret.client
    /\ idleAge[idle[1]] > 0

\* C23: a Get that waits in the select does not hold p.mu: while a caller
\* waits, or is about to take the mutex again after its timer, every
\* operation that is due can take the mutex: a Put of each held connection,
\* a Get of each caller that is not in one, the sweep of a pending tick,
\* Shutdown, and the waiter's own next pass.
C23_WaitReleasesMutex ==
    \A p \in Callers :
        (pc[p] \in {"wait", "lock"})
           => /\ mu # p
              /\ mu = NoHolder
              /\ ~shutdown => ENABLED Shutdown
              /\ (sweeper = "running" /\ tickPending) => ENABLED Sweep
              /\ \A q \in Callers : \A c \in held[q] :
                    pc[q] = "out" => ENABLED Put(q, c)
              /\ \A q \in Callers :
                    (pc[q] = "out" /\ nextConn \in Conns)
                       => ENABLED GetCall(q, "live")
              /\ (pc[p] = "lock" /\ nextConn \in Conns)
                    => ENABLED GetRetry(p)

\* C23 witness: a caller waits in the select while another caller holds a
\* connection it can Put and the sweeper has a tick to serve.
C23_Witness ==
    \E p, q \in Callers :
        /\ p # q
        /\ pc[p] = "wait"
        /\ pc[q] = "out"
        /\ held[q] # {}
        /\ ~shutdown
        /\ sweeper = "running"
        /\ tickPending

\* C25: a cleanup sweep changes only the idle list: the active set, with
\* the checkout time of each connection, and what the callers hold are the
\* same after the sweep as before.
C25_SweepChangesOnlyIdle ==
    [][(tickPending /\ ~tickPending')
          => /\ active' = active
             /\ held' = held
             /\ nextConn' = nextConn
             /\ shutdown' = shutdown
      ]_vars

\* C25 witness: a sweep has just removed an idle connection while a
\* connection was checked out for IdleTimeout or longer.
C25_Witness ==
    /\ fired = Fired("cleanup", NoCallback)
    /\ ~shutdown
    /\ \E c \in DOMAIN idleAge : c \notin Range(idle)
    /\ \E c \in DOMAIN active : active[c] >= IdleTimeout

\* C26: a Put after Shutdown returns and does nothing: the idle list and
\* the active set stay empty and no release callback is invoked; a Put on a
\* live pool takes the connection out of the active set, appends it to the
\* idle list and invokes the release callback.
C26_PutAfterShutdownIsNoOp ==
    [][\A p \in Callers : \A c \in Conns :
          IsPut(p, c)
             => /\ pc'[p] = "out"
                /\ IF shutdown
                     THEN /\ idle = << >> /\ idle' = << >>
                          /\ active = EmptyMap /\ active' = EmptyMap
                          /\ fired'.cb = NoCallback
                     ELSE /\ c \in DOMAIN active
                          /\ c \notin DOMAIN active'
                          /\ DOMAIN active' = DOMAIN active \ {c}
                          /\ idle' = Append(idle, c)
                          /\ fired'.cb = "OnPoolRelease"
      ]_vars

\* C26 witness: a Put has just returned on a pool that is shut down.
C26_Witness ==
    /\ shutdown
    /\ fired = Fired("Put", NoCallback)
    /\ idle = << >>
    /\ active = EmptyMap

\* the pool can serve a Get: it has an idle connection or fewer than
\* MaxSize checked out
Room == HasIdle \/ CanCreate

\* C24: a Get that waits, with a context that is never cancelled, while
\* the pool is live and has room that no other acquirer takes, eventually
\* returns a connection (as long as the model has connection identities
\* left to hand out).
C24_WaitingGetEventuallyServed ==
    \A p \in Callers :
        (pc[p] # "out" /\ Room /\ ~shutdown /\ nextConn \in Conns)
           ~> \/ pc[p] = "out" /\ ret.p = p /\ ret.client \in Conns
              \/ ~Room
              \/ shutdown
              \/ nextConn \notin Conns

\* C24 witness: a Get that had to wait has returned a connection that was
\* released while it waited.
C24_Witness ==
    /\ ret.waited
    /\ ret.client \in Conns
    /\ ret.err = ErrNil
    /\ fired = Fired("Get", "OnPoolGet")
    /\ ~shutdown

\* C27: once the pool is shut down the sweeper eventually terminates, and
\* a sweep that runs after Shutdown leaves the idle list and the active set
\* as Shutdown left them (empty) and is the sweeper's last.
C27_SweeperStopsAfterShutdown ==
    /\ shutdown ~> (sweeper = "stopped")
    /\ [][(shutdown /\ tickPending /\ ~tickPending')
             => /\ idle' = idle /\ idle' = << >>
                /\ active' = active /\ active' = EmptyMap
                /\ sweeper' = "stopped"
         ]_vars
    /\ [](sweeper = "stopped" => shutdown /\ idle = << >> /\ active = EmptyMap)

\* C27 witness: the sweeper has just terminated on the first tick after
\* Shutdown.
C27_Witness ==
    /\ shutdown
    /\ sweeper = "stopped"
    /\ fired = Fired("cleanup", NoCallback)

\* C28: Do makes attempt 0 without sleeping and sleeps once before every
\* later attempt: InitialInterval before attempt 1, and before attempt n+1
\* the smaller of Multiplier times the sleep before attempt n and
\* MaxInterval.
C28_BackoffSchedule ==
    /\ rpc # "idle" =>
          Len(sleeps) = IF rpc = "call" \/ outcomes = << >>
                          THEN Len(outcomes)
                          ELSE Len(outcomes) - 1
    /\ Len(sleeps) >= 1 => sleeps[1] = initialInterval
    /\ \A n \in 1..(Len(sleeps) - 1) :
          sleeps[n + 1] = Min(sleeps[n] * Multiplier, MaxInterval)

\* C28 witness: Do has slept twice and the second sleep was cut to
\* MaxInterval.
C28_Witness ==
    /\ Len(sleeps) = 2
    /\ sleeps[1] * Multiplier > MaxInterval
    /\ sleeps[2] = MaxInterval
    /\ rpc = "done"

\* the attempts (numbered from 1) that were answered with a response
WithBody == {n \in 1..Len(outcomes) : outcomes[n].resp # NoResp}

\* C29: between the steps of Do the only response body that can be open is
\* that of the response Do has returned: none is open while Do sleeps, is
\* about to make an attempt or has returned an error, and after a
\* successful return exactly the body of the returned response, the last
\* attempt's, is open.
C29_FailedBodiesClosed ==
    /\ Cardinality(bodies) <= 1
    /\ bodies \subseteq WithBody
    /\ rpc \in {"call", "sleep", "exhausted"} => bodies = {}
    /\ (rpc = "done" /\ doRet.err # NilError) => bodies = {}
    /\ (rpc = "done" /\ doRet.err = NilError)
          => /\ bodies = {Len(outcomes)}
             /\ outcomes[Len(outcomes)].resp = doRet.resp

\* C29 witness: Do has returned a response after an attempt that was
\* answered 5xx.
C29_Witness ==
    /\ rpc = "done"
    /\ Len(outcomes) = 2
    /\ outcomes[1].resp >= 500
    /\ doRet.err = NilError
    /\ bodies = {2}

\* the calls of OnRetry, in order
RetryCallbacks == SelectSeq(callbacks, LAMBDA cb : cb.name = "OnRetry")

\* C30: Do invokes OnRetry once before each attempt after the first one,
\* the n-th time with attempt number n and the error that made attempt
\* n-1 fail, which is not nil, be it a transport error or a 5xx response.
C30_RetryCallbackGetsCause ==
    /\ rpc # "idle" =>
          Len(RetryCallbacks) = IF rpc = "call" \/ outcomes = << >>
                                  THEN Len(outcomes)
                                  ELSE Len(outcomes) - 1
    /\ \A n \in 1..Len(RetryCallbacks) :
          /\ RetryCallbacks[n].attempt = n
          /\ RetryCallbacks[n].err # NilError
          /\ outcomes[n].err # NilError => RetryCallbacks[n].err = outcomes[n].err

\* C22: an operation of either adapter that is given a request with an
\* empty prompt, or with no message, returns the validation error and
\* issues no HTTP request: every HTTP request issued was built from a
\* request that passes Validate, and the last operation, if its request
\* does not pass, returned Validate's error.
C22_InvalidRequestNeverSent ==
    /\ \A i \in 1..Len(sent) : RequestValidate(sent[i].op, sent[i].req) = ErrNil
    /\ (provRet.op # "" /\ RequestValidate(provRet.op, provRet.req) # ErrNil)
          => provRet.err = RequestValidate(provRet.op, provRet.req)

\* how often Do invoked the callback name
CallbackCount(name) ==
    Len(SelectSeq(callbacks, LAMBDA cb : cb.name = name))

\* C31: a Do that has returned has reported its outcome through a callback
\* exactly once: OnResponse once (and only then) when it returned a
\* response, OnError once when it returned an error, whatever made it fail.
C31_TerminalOutcomeReportedOnce ==
    /\ rpc # "done" => CallbackCount("OnResponse") = 0
    /\ (rpc = "done" /\ doRet.err = NilError)
          => CallbackCount("OnResponse") = 1
    /\ (rpc = "done" /\ doRet.err # NilError)
          => /\ CallbackCount("OnResponse") = 0
             /\ CallbackCount("OnError") = 1

\* C35: Do terminates, after at least one and at most MaxRetries+1
\* attempts, and returns either a response and a nil error or no response
\* and an error.
C35_DoTerminates ==
    /\ <>(rpc = "done")
    /\ [](Len(outcomes) <= maxRetries + 1)
    /\ [](rpc = "done"
            => /\ Len(outcomes) >= 1
               /\ (doRet.resp # NoResp) <=> (doRet.err = NilError))

\* C35 witness: Do has returned an error after MaxRetries+1 = 3 attempts
\* that were answered by a transport error, a 5xx and a transport error.
C35_Witness ==
    /\ rpc = "done"
    /\ maxRetries = 2
    /\ Len(outcomes) = 3
    /\ outcomes[1].err = TransportError
    /\ outcomes[2].resp >= 500
    /\ outcomes[3].err = TransportError
    /\ doRet.resp = NoResp
    /\ doRet.err = TransportError

\* C40: Do never sleeps longer than MaxInterval between two attempts.
C40_SleepAtMostMaxInterval ==
    \A n \in 1..Len(sleeps) : sleeps[n] <= MaxInterval

\* an event of type error
IsErrorEvent(line) == line.kind = "event" /\ line.type = "error"

\* C32: in newline-delimited JSON framing the first event of type error
\* ends the stream: it yields one error item, which is the last item and
\* the only error item, no later line yields an item, and the channel is
\* closed.  (Stated of bodies that end by EOF and whose lines before the
\* error event all decode.)
C32_ErrorEventIsTerminal ==
    LET k == FirstLine(IsErrorEvent) IN
    (/\ decoder = AnthropicNDJSON
     /\ spc = "done"
     /\ sctx = "live"
     /\ wireEnd = "EOF"
     /\ k > 0
     /\ \A j \in 1..(k - 1) : ValidJSON(AnthropicNDJSON, wire[j]))
    => /\ recv # <<>>
       /\ recvFrom[Len(recv)] = k
       /\ recv[Len(recv)] = ErrorItem("stream error")
       /\ \A i \in DOMAIN recv : recv[i].error # "" => i = Len(recv)
       /\ \A i \in DOMAIN recv : recvFrom[i] <= k
       /\ closes = 1

\* C33: in the data:-prefixed decoders a data line whose payload is not
\* JSON ends the stream with an error item: the first such line yields an
\* error item, an error item is always the last item received, so there is
\* at most one and no fragment follows it.  (Stated of bodies that end by
\* EOF; the error item is required of a line no sentinel precedes.)
C33_DecodeErrorIsTerminal ==
    LET k == FirstLine(LAMBDA line : line = BadData) IN
    (/\ decoder \in {OpenAI, AnthropicSSE}
     /\ sctx = "live"
     /\ wireEnd = "EOF")
    => /\ \A i \in DOMAIN recv : recv[i].error # "" => i = Len(recv)
       /\ (spc = "done" /\ k > 0 /\ \A j \in 1..(k - 1) : wire[j] # DoneLine)
             => /\ recv # <<>>
                /\ recv[Len(recv)].error # ""
                /\ recvFrom[Len(recv)] = k

\* C34: what GetCost or GetUsageStats returned is a snapshot: the
\* statistics the caller reads through the result of GetUsageStats, and the
\* cost GetCost returned, are what the tracker held at the return, whatever
\* TrackUsage does later.
C34_ReadsAreSnapshots ==
    /\ [](statsRet.ptr # NoPair => Deref(statsRet) = statsRet.seen)
    /\ [][\A pair \in Pairs, u \in Usages :
            TrackUsage(pair, u) => costRet' = costRet /\ statsRet' = statsRet
        ]_vars

C37_OneConnectionForLife ==
    /\ [](nextConn > 1
            => /\ Constructed
               /\ Cardinality(held[ProviderCaller]) = 1
               /\ DOMAIN active = held[ProviderCaller]
               /\ idle = << >>
               /\ nextConn = 2)
    /\ [](\A p \in Callers : pc[p] = "out")
    /\ [](\A i \in DOMAIN sent : sent[i].conn \in held[ProviderCaller])
    /\ [][Constructed => held' = held /\ DOMAIN active' = DOMAIN active]_vars

\* C37 witness: the provider has issued two HTTP requests, and the sweeper
\* has just run while the connection was out for IdleTimeout or longer.
C37_Witness ==
    /\ Constructed
    /\ Len(sent) = 2
    /\ sent[1].conn = sent[2].conn
    /\ fired = Fired("cleanup", NoCallback)
    /\ \E c \in DOMAIN active : active[c] >= IdleTimeout

\* C36: a Put of a connection that the caller does not hold (released
\* before, or never issued by this pool) leaves the idle list as it is, so
\* the idle list never holds a connection twice and never holds one that
\* is also active.
C36_PutNotHeldIsNoOp ==
    /\ [][\A p \in Callers : \A client \in Conns \cup {ForeignConn} :
            PutNotHeld(p, client) => idle' = idle]_vars
    /\ [](\A i, j \in DOMAIN idle : idle[i] = idle[j] => i = j)
    /\ [](Range(idle) \cap DOMAIN active = {})

\* C38: every client that NewClient returns without error has a provider,
\* and no call on it dereferences a nil provider.
C38_ClientHasProvider ==
    /\ cpc \in {"ready", "panicked"} => llmClient.provider # "nil"
    /\ cpc # "panicked"
====
